---- MODULE Spec2Model ----
(***************************************************************************)
(* tools/patch_unitree.py: the spawn-block switcher of unitree.py.         *)
(*                                                                         *)
(* Text is a sequence of characters.  A character is a one-token string;   *)
(* the words the regular expressions of the program spell out letter by    *)
(* letter (spawn, UnitreeUrdfFileCfg, ...) are single tokens, every other  *)
(* printable character is "x".  Python indexes from 0, the sequences here  *)
(* from 1.                                                                 *)
(***************************************************************************)
EXTENDS Integers, Sequences, FiniteSets, TLC

VARIABLES
    hist,       \* line machine: the input line and the result of each call made on it
    ops,        \* line machine: the calls made, "comment" / "uncomment", oldest first
    doc,        \* patch machine: the text patch_spawn_modes is called on next, shown
                \* as the lines str.splitlines(True) cuts it into
    last,       \* patch machine: the last call of patch_spawn_modes and what it did
    dir,        \* DIR machine: the call of replace_dir_assignments: [called, parts, src, names, out]
    pc,         \* main: where the run is: "start", "compare", "write", "report", "exit"
                \* ("idle" while another machine runs)
    args,       \* main: the command line: [mode, no_backup]
    file,       \* main: unitree.py on disk: [exists, text]
    bak,        \* main: unitree.py.bak on disk: [exists, text]
    original,   \* main: the text read from unitree.py
    patched,    \* main: the text after the spawn patch and the DIR patch
    found,      \* main: what patch_spawn_modes returned beside the text
    values,     \* main: the names of the DIR constants that get a new value
    out,        \* main: the lines printed: tags of the [OK], [WARN] and [ERROR] lines
    log,        \* main: the files written, "bak" / "target", oldest first
    rc          \* main: the exit status, -1 while main runs

\* texts held in variables are shown as the lines str.splitlines(True) cuts them into

lineVars == <<hist, ops>>
patchVars == <<doc, last>>
dirVars == <<dir>>
mainVars == <<pc, args, file, bak, original, patched, found, values, out, log, rc>>
vars == <<hist, ops, doc, last, dir, pc, args, file, bak, original, patched, found, values,
          out, log, rc>>

----------------------------------------------------------------------------
(* Bounds of the model *)

\* longest line body (the characters before the terminator) the line machine is started on
MaxBody == 4
\* most calls the line machine makes on one input
MaxOps == 2
\* most chunks (single lines or whole spawn blocks) a document is made of
MaxChunks == 3
\* most lines of a text replace_dir_assignments is called on
MaxDirLines == 2

----------------------------------------------------------------------------
(* Characters *)

LF == "LF"
CR == "CR"
TAB == "TAB"
SP == " "
MARK == "#"

\* [ \t]
IndentWs == {SP, TAB}
\* \s  (the members of it that the model's alphabet has)
Whitespace == {SP, TAB, CR, LF}

Min(S) == CHOOSE m \in S : \A n \in S : m <= n

\* the sequences of at most n members of S
RECURSIVE SeqsUpTo(_, _)
SeqsUpTo(S, n) ==
    IF n = 0 THEN {<<>>}
    ELSE LET T == SeqsUpTo(S, n - 1)
         IN  T \cup {Append(t, c) : t \in {u \in T : Len(u) = n - 1}, c \in S}

\* the number of leading characters of s that are in set S
LeadLen(s, S) ==
    IF \E i \in 1..Len(s) : s[i] \notin S
    THEN Min({i \in 1..Len(s) : s[i] \notin S}) - 1
    ELSE Len(s)

\* s[i..] and s[..i]
From(s, i) == SubSeq(s, i, Len(s))
Upto(s, i) == SubSeq(s, 1, i)

\* str.strip() == ""
IsBlankLine(line) == \A i \in 1..Len(line) : line[i] \in Whitespace

\* str.lstrip()
LStrip(s) == From(s, LeadLen(s, Whitespace) + 1)

\* Python's $ (no MULTILINE) at index q (the index of the next character to read):
\* the end of the string, or just before a newline that ends the string
DollarAt(s, q) == q = Len(s) + 1 \/ (q = Len(s) /\ s[q] = LF)

\* (\r?\n)?$ tried at index p in the regex engine's order: CR LF, LF, nothing.
\* The length of the terminator matched, or -1 when the match fails here.
NlLenAt(s, p) ==
    IF p + 1 <= Len(s) /\ s[p] = CR /\ s[p + 1] = LF /\ DollarAt(s, p + 2) THEN 2
    ELSE IF p <= Len(s) /\ s[p] = LF /\ DollarAt(s, p + 1) THEN 1
    ELSE IF DollarAt(s, p) THEN 0
    ELSE -1

\* (.*?)(\r?\n)?$ from index k: the lazy group takes the fewest characters, none of
\* them a newline, after which the rest of the pattern matches.
\* [ok, stop, nl]: rest is s[k..stop-1], the terminator is s[stop..stop+nl-1].
RestMatch(s, k) ==
    LET P == {p \in k..(Len(s) + 1) :
                 /\ \A i \in k..(p - 1) : s[i] # LF
                 /\ NlLenAt(s, p) >= 0}
    IN  IF P = {} THEN [ok |-> FALSE, stop |-> 0, nl |-> 0]
        ELSE [ok |-> TRUE, stop |-> Min(P), nl |-> NlLenAt(s, Min(P))]

\* re.match(r'^\s*#', line)
is_commented(line) ==
    LET j == LeadLen(line, Whitespace)
    IN  j < Len(line) /\ line[j + 1] = MARK

\* a plausible slip: the marker is added without looking for one already there
comment_line_double(line) ==
    IF IsBlankLine(line) THEN line
    ELSE LET n == LeadLen(line, IndentWs)
             m == RestMatch(line, n + 1)
         IN  IF ~m.ok THEN line
             ELSE Upto(line, n) \o <<MARK, SP>> \o SubSeq(line, n + 1, m.stop - 1)
                    \o SubSeq(line, m.stop, m.stop + m.nl - 1)

comment_line(line) ==
    IF IsBlankLine(line) THEN line
    ELSE LET n == LeadLen(line, IndentWs)
             m == RestMatch(line, n + 1)
             rest == SubSeq(line, n + 1, m.stop - 1)
             nl == SubSeq(line, m.stop, m.stop + m.nl - 1)
         IN  IF ~m.ok THEN line
             ELSE IF Len(LStrip(rest)) > 0 /\ LStrip(rest)[1] = MARK THEN line
             ELSE Upto(line, n) \o <<MARK, SP>> \o rest \o nl

\* a plausible slip: the space after the marker is never stripped (# instead of #\s?)
uncomment_line_keep_space(line) ==
    IF IsBlankLine(line) THEN line
    ELSE LET n == LeadLen(line, IndentWs)
             m == RestMatch(line, n + 2)
         IN  IF ~(n < Len(line) /\ line[n + 1] = MARK) \/ ~m.ok THEN line
             ELSE Upto(line, n) \o SubSeq(line, n + 2, m.stop - 1)
                    \o SubSeq(line, m.stop, m.stop + m.nl - 1)

\* ^([ \t]*)#\s?(.*?)(\r?\n)?$ : \s? is greedy, so the engine first lets it take one
\* whitespace character (a CR or an LF is one) and gives it up only when the rest of
\* the pattern then fails.
uncomment_line(line) ==
    IF IsBlankLine(line) THEN line
    ELSE LET n == LeadLen(line, IndentWs)
             marked == n < Len(line) /\ line[n + 1] = MARK
             ws == n + 2 <= Len(line) /\ line[n + 2] \in Whitespace
             m1 == RestMatch(line, n + 3)
             m0 == RestMatch(line, n + 2)
             k == IF ws /\ m1.ok THEN n + 3 ELSE n + 2
             m == IF ws /\ m1.ok THEN m1 ELSE m0
         IN  IF ~marked \/ ~m.ok THEN line
             ELSE Upto(line, n) \o SubSeq(line, k, m.stop - 1)
                    \o SubSeq(line, m.stop, m.stop + m.nl - 1)

----------------------------------------------------------------------------
(* Text and lines *)

\* str.splitlines(True): a line ends after LF, after CR LF, or after a CR alone
RECURSIVE splitlines(_)
splitlines(text) ==
    IF text = <<>> THEN <<>>
    ELSE LET B == {i \in 1..Len(text) : text[i] \in {LF, CR}}
             b == Min(B)
             e == IF text[b] = CR /\ b < Len(text) /\ text[b + 1] = LF THEN b + 1 ELSE b
         IN  IF B = {} THEN <<text>>
             ELSE <<Upto(text, e)>> \o splitlines(From(text, e + 1))

\* "".join(lines)
RECURSIVE join(_)
join(lines) == IF lines = <<>> THEN <<>> ELSE Head(lines) \o join(Tail(lines))

\* str.rstrip("\n")
RECURSIVE rstrip_nl(_)
rstrip_nl(s) ==
    IF Len(s) > 0 /\ s[Len(s)] = LF THEN rstrip_nl(Upto(s, Len(s) - 1)) ELSE s

----------------------------------------------------------------------------
(* The patterns of the spawn block switcher.  A pattern position is an index *)
(* into the line, 0 once the match has failed.                               *)

\* the index after the run of characters of S that starts at index i
SkipFrom(s, i, S) == i + LeadLen(From(s, i), S)

\* the literal w followed by \s*, at index i
Word(s, i, w) ==
    IF i > 0 /\ i <= Len(s) /\ s[i] = w THEN SkipFrom(s, i + 1, Whitespace) ELSE 0

\* (?P<prefix>#\s*)? at index i: the marker is taken when it is there
Prefix(s, i) == IF i <= Len(s) /\ s[i] = MARK THEN Word(s, i, MARK) ELSE i

\* $ on a line that went through rstrip("\n")
AtEnd(s, i) == i = Len(s) + 1

Kinds == {"Urdf", "Usd"}

\* SPAWN_HEADER_ANY_RE.match(s): the kind of the header, "" when s is no header
SpawnHeaderKind(s) ==
    LET a == Prefix(s, SkipFrom(s, 1, IndentWs))
        b == Word(s, Word(s, a, "spawn"), "=")
        K == {k \in Kinds : AtEnd(s, Word(s, Word(s, b, k), "("))}
    IN  IF K = {} THEN "" ELSE CHOOSE k \in K : TRUE

\* SPAWN_FOOTER_ANY_RE.match(s)
IsSpawnFooter(s) ==
    AtEnd(s, Word(s, Word(s, Prefix(s, SkipFrom(s, 1, IndentWs)), ")"), ","))

\* CFG_START_RE.match(s); "CFG" is a name of the form [A-Z0-9_]+_CFG, "UAC" is
\* UnitreeArticulationCfg
IsCfgStart(s) ==
    LET a == SkipFrom(s, 1, IndentWs)
    IN  AtEnd(s, Word(s, Word(s, Word(s, Word(s, a, "CFG"), "="), "UAC"), "("))

\* None
NoSpan == <<>>

\* the first footer line after start_idx, 0 (None) when there is none
find_matching_footer(lines, start_idx) ==
    LET J == {j \in (start_idx + 1)..Len(lines) : IsSpawnFooter(rstrip_nl(lines[j]))}
    IN  IF J = {} THEN 0 ELSE Min(J)

\* a plausible slip: a footer past block_end is taken as well
RECURSIVE LocateFrom_past_end(_, _, _, _, _)
LocateFrom_past_end(lines, i, block_end, urdf, usd) ==
    IF i > block_end THEN [urdf |-> urdf, usd |-> usd]
    ELSE LET kind == SpawnHeaderKind(rstrip_nl(lines[i]))
             j == find_matching_footer(lines, i)
         IN  IF kind = "" THEN LocateFrom_past_end(lines, i + 1, block_end, urdf, usd)
             ELSE IF j = 0
                  THEN LocateFrom_past_end(lines, i + 1, block_end, urdf, usd)
             ELSE IF kind = "Urdf" /\ urdf = NoSpan
                  THEN LocateFrom_past_end(lines, j + 1, block_end, <<i, j>>, usd)
             ELSE IF kind = "Usd" /\ usd = NoSpan
                  THEN LocateFrom_past_end(lines, j + 1, block_end, urdf, <<i, j>>)
             ELSE LocateFrom_past_end(lines, j + 1, block_end, urdf, usd)

\* the while loop of locate_spawn_blocks_within, from index i on
RECURSIVE LocateFrom(_, _, _, _, _)
LocateFrom(lines, i, block_end, urdf, usd) ==
    IF i > block_end THEN [urdf |-> urdf, usd |-> usd]
    ELSE LET kind == SpawnHeaderKind(rstrip_nl(lines[i]))
             j == find_matching_footer(lines, i)
         IN  IF kind = "" THEN LocateFrom(lines, i + 1, block_end, urdf, usd)
             ELSE IF j = 0 \/ j > block_end
                  THEN LocateFrom(lines, i + 1, block_end, urdf, usd)
             ELSE IF kind = "Urdf" /\ urdf = NoSpan
                  THEN LocateFrom(lines, j + 1, block_end, <<i, j>>, usd)
             ELSE IF kind = "Usd" /\ usd = NoSpan
                  THEN LocateFrom(lines, j + 1, block_end, urdf, <<i, j>>)
             ELSE LocateFrom(lines, j + 1, block_end, urdf, usd)

locate_spawn_blocks_within(lines, block_start, block_end) ==
    LocateFrom(lines, block_start, block_end, NoSpan, NoSpan)

\* a plausible slip: the enabled block is left as it is
switch_spawn_block_off_only(lines, span, enable) ==
    [k \in 1..Len(lines) |->
        IF span[1] <= k /\ k <= span[2] /\ ~enable THEN comment_line(lines[k])
        ELSE lines[k]]

switch_spawn_block(lines, span, enable) ==
    [k \in 1..Len(lines) |->
        IF span[1] <= k /\ k <= span[2]
        THEN IF enable THEN uncomment_line(lines[k]) ELSE comment_line(lines[k])
        ELSE lines[k]]

\* the number of characters c in line s
Count(s, c) == Cardinality({k \in 1..Len(s) : s[k] = c})

\* depth and started of find_cfg_block_end once line i has been read
RECURSIVE DepthAfter(_, _, _)
DepthAfter(lines, start_idx, i) ==
    IF i < start_idx THEN 0
    ELSE DepthAfter(lines, start_idx, i - 1) + Count(lines[i], "(") - Count(lines[i], ")")

StartedAfter(lines, start_idx, i) ==
    \E k \in start_idx..i : Count(lines[k], "(") > 0

\* a plausible slip: an unbalanced block is taken to end on its first line
find_cfg_block_end_short(lines, start_idx) ==
    LET E == {i \in start_idx..Len(lines) :
                 StartedAfter(lines, start_idx, i) /\ DepthAfter(lines, start_idx, i) <= 0}
    IN  IF E = {} THEN start_idx ELSE Min(E)

\* a plausible slip: the depth is looked at after every character, so the block ends
\* on the first line in which the depth comes back to zero
find_cfg_block_end_per_char(lines, start_idx) ==
    LET E == {i \in start_idx..Len(lines) :
                 \E n \in 1..Len(lines[i]) :
                     /\ StartedAfter(lines, start_idx, i - 1)
                           \/ Count(Upto(lines[i], n), "(") > 0
                     /\ DepthAfter(lines, start_idx, i - 1)
                           + Count(Upto(lines[i], n), "(")
                           - Count(Upto(lines[i], n), ")") <= 0}
    IN  IF E = {} THEN Len(lines) ELSE Min(E)

\* the depth is looked at once per line, after the whole line has been counted;
\* with no such line the last line of the file is returned
find_cfg_block_end(lines, start_idx) ==
    LET E == {i \in start_idx..Len(lines) :
                 StartedAfter(lines, start_idx, i) /\ DepthAfter(lines, start_idx, i) <= 0}
    IN  IF E = {} THEN Len(lines) ELSE Min(E)

Modes == {"urdf", "usd"}

\* lines 281-290: the span of the mode is enabled, then the other one disabled
SwitchRegion(lines, mode, urdf_span, usd_span) ==
    LET on == IF mode = "urdf" THEN urdf_span ELSE usd_span
        off == IF mode = "urdf" THEN usd_span ELSE urdf_span
        l1 == IF on # NoSpan THEN switch_spawn_block(lines, on, TRUE) ELSE lines
    IN  IF off # NoSpan THEN switch_spawn_block(l1, off, FALSE) ELSE l1

\* a plausible slip: a region without a block of the mode ends the scan
RECURSIVE PatchFrom_absent_ends_scan(_, _, _)
PatchFrom_absent_ends_scan(st, i, mode) ==
    IF i > Len(st.lines) THEN st
    ELSE IF ~IsCfgStart(rstrip_nl(st.lines[i])) THEN PatchFrom_absent_ends_scan(st, i + 1, mode)
    ELSE LET block_end == find_cfg_block_end(st.lines, i)
             sp == locate_spawn_blocks_within(st.lines, i, block_end)
             st2 == [lines |-> SwitchRegion(st.lines, mode, sp.urdf, sp.usd),
                     cfg_blocks |-> st.cfg_blocks + 1,
                     urdf_seen |-> st.urdf_seen + (IF sp.urdf # NoSpan THEN 1 ELSE 0),
                     usd_seen |-> st.usd_seen + (IF sp.usd # NoSpan THEN 1 ELSE 0),
                     regions |-> Append(st.regions,
                                    [block_start |-> i, block_end |-> block_end,
                                     urdf |-> sp.urdf, usd |-> sp.usd])]
         IN  IF (IF mode = "urdf" THEN sp.urdf ELSE sp.usd) = NoSpan THEN st2
             ELSE PatchFrom_absent_ends_scan(st2, block_end + 1, mode)

\* a plausible slip: the scan goes on at the line after the start line
RECURSIVE PatchFrom_resumes_inside(_, _, _)
PatchFrom_resumes_inside(st, i, mode) ==
    IF i > Len(st.lines) THEN st
    ELSE IF ~IsCfgStart(rstrip_nl(st.lines[i])) THEN PatchFrom_resumes_inside(st, i + 1, mode)
    ELSE LET block_end == find_cfg_block_end(st.lines, i)
             sp == locate_spawn_blocks_within(st.lines, i, block_end)
             st2 == [lines |-> SwitchRegion(st.lines, mode, sp.urdf, sp.usd),
                     cfg_blocks |-> st.cfg_blocks + 1,
                     urdf_seen |-> st.urdf_seen + (IF sp.urdf # NoSpan THEN 1 ELSE 0),
                     usd_seen |-> st.usd_seen + (IF sp.usd # NoSpan THEN 1 ELSE 0),
                     regions |-> Append(st.regions,
                                    [block_start |-> i, block_end |-> block_end,
                                     urdf |-> sp.urdf, usd |-> sp.usd])]
         IN  PatchFrom_resumes_inside(st2, i + 1, mode)

\* the while loop of patch_spawn_modes, from index i on.  st holds the locals
\* lines, cfg_blocks, urdf_seen, usd_seen and, for the claims, the list of the
\* regions processed: [block_start, block_end, urdf, usd] each.
RECURSIVE PatchFrom(_, _, _)
PatchFrom(st, i, mode) ==
    IF i > Len(st.lines) THEN st
    ELSE IF ~IsCfgStart(rstrip_nl(st.lines[i])) THEN PatchFrom(st, i + 1, mode)
    ELSE LET block_end == find_cfg_block_end(st.lines, i)
             sp == locate_spawn_blocks_within(st.lines, i, block_end)
         IN  PatchFrom(
                 [lines |-> SwitchRegion(st.lines, mode, sp.urdf, sp.usd),
                  cfg_blocks |-> st.cfg_blocks + 1,
                  urdf_seen |-> st.urdf_seen + (IF sp.urdf # NoSpan THEN 1 ELSE 0),
                  usd_seen |-> st.usd_seen + (IF sp.usd # NoSpan THEN 1 ELSE 0),
                  regions |-> Append(st.regions,
                                 [block_start |-> i, block_end |-> block_end,
                                  urdf |-> sp.urdf, usd |-> sp.usd])],
                 block_end + 1, mode)

\* patch_spawn_modes(src, mode): new_src is join(.lines)
patch_spawn_modes(src, mode) ==
    PatchFrom([lines |-> splitlines(src), cfg_blocks |-> 0, urdf_seen |-> 0,
               usd_seen |-> 0, regions |-> <<>>], 1, mode)

----------------------------------------------------------------------------
(* The DIR constants at the top of the file *)

\* "ROS" is UNITREE_ROS_DIR, "MODEL" is UNITREE_MODEL_DIR
DirNames == {"ROS", "MODEL"}
DQ == "DQ"
SQ == "SQ"
Quotes == {DQ, SQ}

\* (?P<tail>[ \t]*(#.*)?)$ at index k of a line that went through rstrip("\n")
DirTailAt(s, k) ==
    LET t == SkipFrom(s, k, IndentWs)
    IN  AtEnd(s, t) \/ (s[t] = MARK /\ \A i \in t..Len(s) : s[i] # LF)

\* DIR_ASSIGN_RE.match(s): [ok, indent, name, tail].  The lazy val group stops at
\* the first closing quote after which the tail matches.
DirAssignMatch(s) ==
    LET a == SkipFrom(s, 1, IndentWs)
        name == IF a <= Len(s) THEN s[a] ELSE ""
        b == Word(s, Word(s, a, name), "=")
        quoted == name \in DirNames /\ b > 0 /\ b <= Len(s) /\ s[b] \in Quotes
        J == IF quoted
             THEN {j \in (b + 1)..Len(s) : s[j] = s[b] /\ DirTailAt(s, j + 1)}
             ELSE {}
    IN  IF J = {} THEN [ok |-> FALSE, indent |-> <<>>, name |-> "", tail |-> <<>>]
        ELSE [ok |-> TRUE, indent |-> Upto(s, a - 1), name |-> name,
              tail |-> From(s, Min(J) + 1)]

\* str(ros_dir), str(model_dir): the resolved directories
NewValue(name) == IF name = "ROS" THEN "/ros" ELSE "/model"

\* a plausible slip: the tail of the line is not put back
DirLineOut_no_tail(ln, names) ==
    LET m == DirAssignMatch(rstrip_nl(ln))
    IN  IF m.ok /\ m.name \in names
        THEN m.indent \o <<m.name, SP, "=", SP, DQ, NewValue(m.name), DQ>> \o <<LF>>
        ELSE ln

\* the line replace_dir_assignments puts for ln; names is the key set of values
DirLineOut(ln, names) ==
    LET m == DirAssignMatch(rstrip_nl(ln))
    IN  IF m.ok /\ m.name \in names
        THEN m.indent \o <<m.name, SP, "=", SP, DQ, NewValue(m.name), DQ>> \o m.tail \o <<LF>>
        ELSE ln

replace_dir_assignments(src, names) ==
    LET lines == splitlines(src)
    IN  join([k \in 1..Len(lines) |-> DirLineOut(lines[k], names)])

----------------------------------------------------------------------------
(* Documents: the lines of unitree.py the switcher looks at *)

CfgStartLine == <<"CFG", SP, "=", SP, "UAC", "(", LF>>
CloseLine == <<")", LF>>
HeaderLine(kind) == <<SP, "spawn", "=", kind, "(", LF>>
ArgLine == <<SP, SP, "x", "=", "x", ",", LF>>
FooterLine == <<SP, ")", ",", LF>>
\* a note inside a disabled block: "# # x"
NoteInOffLine == <<SP, MARK, SP, MARK, SP, "x", LF>>
\* a marker with nothing after it
BareMarkLine == <<SP, MARK, LF>>

\* an enabled block, and the same block as comment_line disables it
BlockOn(kind) == <<HeaderLine(kind), ArgLine, FooterLine>>
BlockOff(kind) == [k \in 1..3 |-> comment_line(BlockOn(kind)[k])]
\* disabled blocks as an editor leaves them
BlockOffNote(kind) ==
    <<comment_line(HeaderLine(kind)), NoteInOffLine, comment_line(FooterLine)>>
BlockOffBare(kind) ==
    <<comment_line(HeaderLine(kind)), BareMarkLine, comment_line(FooterLine)>>

PatchChunks ==
    {<<CfgStartLine>>, <<CloseLine>>}
        \cup {BlockOn(k) : k \in Kinds} \cup {BlockOff(k) : k \in Kinds}
        \cup {BlockOffNote(k) : k \in Kinds} \cup {BlockOffBare(k) : k \in Kinds}

\* the texts made of at most MaxChunks chunks of C
RECURSIVE join_chunks(_)
join_chunks(cs) == IF cs = <<>> THEN <<>> ELSE join(Head(cs)) \o join_chunks(Tail(cs))

Texts(C) == {join_chunks(cs) : cs \in SeqsUpTo(C, MaxChunks)}

\* a file that is not there, and the counts before any call
NoFile == [exists |-> FALSE, text |-> <<>>]
NoFound == [cfg_blocks |-> 0, urdf_seen |-> 0, usd_seen |-> 0, regions |-> <<>>]

\* replace_dir_assignments not called, and no text to call it on
NoDir == [called |-> FALSE, parts |-> <<>>, src |-> <<>>, names |-> {}, out |-> <<>>]

\* the variables of main while another machine runs
MainIdle ==
    /\ pc = "idle"
    /\ args = [mode |-> "", no_backup |-> FALSE]
    /\ file = NoFile /\ bak = NoFile
    /\ original = <<>> /\ patched = <<>>
    /\ found = NoFound /\ values = {} /\ out = {} /\ log = <<>> /\ rc = -1

----------------------------------------------------------------------------
(* The patch machine: patch_spawn_modes called on a text, then on its result *)

NoCall ==
    [called |-> FALSE, src |-> <<>>, mode |-> "", src_mode |-> "", lines |-> <<>>,
     cfg_blocks |-> 0, urdf_seen |-> 0, usd_seen |-> 0, regions |-> <<>>]

PatchInit ==
    /\ doc \in {splitlines(t) : t \in Texts(PatchChunks)}
    /\ last = NoCall
    /\ hist = <<>>
    /\ ops = <<>>
    /\ dir = NoDir
    /\ MainIdle

\* patch_spawn_modes(doc, mode); src_mode is the mode of the call that made doc
CallPatch(mode) ==
    \E r \in {patch_spawn_modes(join(doc), mode)} :
        /\ doc' = splitlines(join(r.lines))
        /\ last' = [called |-> TRUE, src |-> doc, mode |-> mode, src_mode |-> last.mode,
                    lines |-> r.lines, cfg_blocks |-> r.cfg_blocks,
                    urdf_seen |-> r.urdf_seen, usd_seen |-> r.usd_seen,
                    regions |-> r.regions]
        /\ UNCHANGED <<lineVars, mainVars, dirVars>>

PatchUrdf == CallPatch("urdf")
PatchUsd == CallPatch("usd")

PatchNext == PatchUrdf \/ PatchUsd

SpecPatch == PatchInit /\ [][PatchNext]_vars

----------------------------------------------------------------------------
(* main: one run of the tool on unitree.py *)

DirRosLine == <<"ROS", SP, "=", SP, DQ, "/old", DQ, SP, MARK, "x", LF>>
DirRosNewLine == <<"ROS", SP, "=", SP, DQ, "/ros", DQ, LF>>

\* a closing line of a file saved with CR LF line ends
CloseLineCrLf == <<")", CR, LF>>

MainChunks ==
    {<<CfgStartLine>>, <<CloseLine>>, <<CloseLineCrLf>>, BlockOn("Usd"), BlockOff("Urdf"),
     <<DirRosLine>>, <<DirRosNewLine>>}

\* Path.read_text(): universal newlines, CR LF and a CR alone are read as LF
RECURSIVE read_text(_)
read_text(bytes) ==
    IF bytes = <<>> THEN <<>>
    ELSE IF Head(bytes) = CR
         THEN <<LF>> \o read_text(IF Len(bytes) > 1 /\ bytes[2] = LF
                                  THEN From(bytes, 3) ELSE Tail(bytes))
    ELSE <<Head(bytes)>> \o read_text(Tail(bytes))

MainInit ==
    /\ pc = "start"
    /\ args \in [mode : Modes, no_backup : BOOLEAN]
    /\ file \in {NoFile}
                  \cup {[exists |-> TRUE, text |-> splitlines(t)] : t \in Texts(MainChunks)}
    /\ bak = NoFile
    /\ original = <<>> /\ patched = <<>>
    /\ found = NoFound /\ values = {} /\ out = {} /\ log = <<>> /\ rc = -1
    /\ doc = <<>> /\ last = NoCall /\ hist = <<>> /\ ops = <<>> /\ dir = NoDir

\* a plausible slip: the return after the error message is missing
NotFound_continues ==
    /\ pc = "start"
    /\ ~file.exists
    /\ out' = out \cup {"error_not_found"}
    /\ pc' = "compare"
    /\ UNCHANGED <<args, file, bak, original, patched, found, values, log, rc>>
    /\ UNCHANGED <<lineVars, patchVars, dirVars>>

\* lines 323-325
NotFound ==
    /\ pc = "start"
    /\ ~file.exists
    /\ out' = out \cup {"error_not_found"}
    /\ rc' = 1
    /\ pc' = "exit"
    /\ UNCHANGED <<args, file, bak, original, patched, found, values, log>>
    /\ UNCHANGED <<lineVars, patchVars, dirVars>>

\* lines 333-355: the key set of values and the warnings printed on the way
DirValues(mode, write_dirs, ros_exists, model_exists) ==
    IF ~write_dirs THEN {}
    ELSE (IF ros_exists THEN {"ROS"} ELSE {})
            \cup (IF mode = "usd" /\ model_exists THEN {"MODEL"} ELSE {})

DirWarnings(mode, write_dirs, ros_exists, model_exists) ==
    IF ~write_dirs THEN {}
    ELSE (IF ros_exists THEN {} ELSE {"warn_ros_missing"})
            \cup (IF mode = "usd" /\ ~model_exists THEN {"warn_model_missing"} ELSE {})

\* lines 327-357: read, spawn patch, DIR patch
LoadAndPatch ==
    /\ pc = "start"
    /\ file.exists
    /\ \E write_dirs \in BOOLEAN, ros_exists \in BOOLEAN, model_exists \in BOOLEAN :
       \E text \in {read_text(join(file.text))} :
       \E r \in {patch_spawn_modes(text, args.mode)} :
       \E names \in {DirValues(args.mode, write_dirs, ros_exists, model_exists)} :
          /\ original' = splitlines(text)
          /\ found' = [cfg_blocks |-> r.cfg_blocks, urdf_seen |-> r.urdf_seen,
                       usd_seen |-> r.usd_seen, regions |-> r.regions]
          /\ values' = names
          /\ patched' = splitlines(IF names # {}
                                   THEN replace_dir_assignments(join(r.lines), names)
                                   ELSE join(r.lines))
          /\ out' = out \cup DirWarnings(args.mode, write_dirs, ros_exists, model_exists)
    /\ pc' = "compare"
    /\ UNCHANGED <<args, file, bak, log, rc>>
    /\ UNCHANGED <<lineVars, patchVars, dirVars>>

\* a plausible slip: the file is rewritten first and backed up afterwards
WriteBackup_after ==
    /\ pc = "compare"
    /\ patched # original
    /\ ~args.no_backup
    /\ file' = [exists |-> TRUE, text |-> patched]
    /\ bak' = [exists |-> TRUE, text |-> original]
    /\ log' = log \o <<"target", "bak">>
    /\ out' = out \cup {"ok_patched", "ok_backup"}
    /\ pc' = "report"
    /\ UNCHANGED <<args, original, patched, found, values, rc>>
    /\ UNCHANGED <<lineVars, patchVars, dirVars>>

\* lines 360-364
WriteBackup ==
    /\ pc = "compare"
    /\ patched # original
    /\ ~args.no_backup
    /\ bak' = [exists |-> TRUE, text |-> original]
    /\ log' = Append(log, "bak")
    /\ out' = out \cup {"ok_backup"}
    /\ pc' = "write"
    /\ UNCHANGED <<args, file, original, patched, found, values, rc>>
    /\ UNCHANGED <<lineVars, patchVars, dirVars>>

\* lines 366-367, reached past the backup or, with --no-backup, without it
WriteTarget ==
    /\ \/ pc = "write"
       \/ pc = "compare" /\ patched # original /\ args.no_backup
    /\ file' = [exists |-> TRUE, text |-> patched]
    /\ log' = Append(log, "target")
    /\ out' = out \cup {"ok_patched"}
    /\ pc' = "report"
    /\ UNCHANGED <<args, bak, original, patched, found, values, rc>>
    /\ UNCHANGED <<lineVars, patchVars, dirVars>>

\* a plausible slip: the file is written whether or not the text changed
NoChange_rewrites ==
    /\ pc = "compare"
    /\ patched = original
    /\ file' = [exists |-> TRUE, text |-> patched]
    /\ log' = Append(log, "target")
    /\ out' = out \cup {"ok_patched"}
    /\ pc' = "report"
    /\ UNCHANGED <<args, bak, original, patched, found, values, rc>>
    /\ UNCHANGED <<lineVars, patchVars, dirVars>>

\* lines 368-369
NoChange ==
    /\ pc = "compare"
    /\ patched = original
    /\ out' = out \cup {"ok_no_changes"}
    /\ pc' = "report"
    /\ UNCHANGED <<args, file, bak, original, patched, found, values, log, rc>>
    /\ UNCHANGED <<lineVars, patchVars, dirVars>>

\* a plausible slip: a run that found no block of the mode ends as a failure
Report_fails_on_no_match ==
    /\ pc = "report"
    /\ out' = out
         \cup (IF args.mode = "urdf" /\ found.urdf_seen = 0 THEN {"warn_no_urdf"} ELSE {})
         \cup (IF args.mode = "usd" /\ found.usd_seen = 0 THEN {"warn_no_usd"} ELSE {})
    /\ rc' = IF (args.mode = "urdf" /\ found.urdf_seen = 0)
                 \/ (args.mode = "usd" /\ found.usd_seen = 0) THEN 1 ELSE 0
    /\ pc' = "exit"
    /\ UNCHANGED <<args, file, bak, original, patched, found, values, log>>
    /\ UNCHANGED <<lineVars, patchVars, dirVars>>

\* lines 371-381
Report ==
    /\ pc = "report"
    /\ out' = out
         \cup (IF args.mode = "urdf" /\ found.urdf_seen = 0 THEN {"warn_no_urdf"} ELSE {})
         \cup (IF args.mode = "usd" /\ found.usd_seen = 0 THEN {"warn_no_usd"} ELSE {})
    /\ rc' = 0
    /\ pc' = "exit"
    /\ UNCHANGED <<args, file, bak, original, patched, found, values, log>>
    /\ UNCHANGED <<lineVars, patchVars, dirVars>>

Next == NotFound \/ LoadAndPatch \/ WriteBackup \/ WriteTarget \/ NoChange \/ Report

Spec == MainInit /\ [][Next]_vars

----------------------------------------------------------------------------
(* The line machine: comment_line and uncomment_line called on one line *)

BodyChars == {SP, MARK, "x"}
Terminators == {<<>>, <<LF>>, <<CR, LF>>}

\* a line as str.splitlines(True) yields it: a body and its terminator
LineInputs == {b \o t : b \in SeqsUpTo(BodyChars, MaxBody), t \in Terminators}

LineInit ==
    /\ hist \in {<<l>> : l \in LineInputs}
    /\ ops = <<>>
    /\ doc = <<>>
    /\ last = NoCall
    /\ dir = NoDir
    /\ MainIdle

CallComment ==
    /\ Len(ops) < MaxOps
    /\ hist' = Append(hist, comment_line(hist[Len(hist)]))
    /\ ops' = Append(ops, "comment")
    /\ UNCHANGED <<patchVars, mainVars, dirVars>>

CallUncomment ==
    /\ Len(ops) < MaxOps
    /\ hist' = Append(hist, uncomment_line(hist[Len(hist)]))
    /\ ops' = Append(ops, "uncomment")
    /\ UNCHANGED <<patchVars, mainVars, dirVars>>

LineNext == CallComment \/ CallUncomment

SpecLine == LineInit /\ [][LineNext]_vars

----------------------------------------------------------------------------
(* Claims about the comment toggle, checked under SpecLine *)

\* the i-th call was op, made on hist[i] and returning hist[i + 1]
Called(i, op) == i \in 1..Len(ops) /\ ops[i] = op

\* the line terminator of a line: CR LF, LF or none
Term(line) ==
    IF Len(line) >= 2 /\ line[Len(line) - 1] = CR /\ line[Len(line)] = LF THEN <<CR, LF>>
    ELSE IF Len(line) >= 1 /\ line[Len(line)] = LF THEN <<LF>>
    ELSE <<>>

\* the leading run of blanks and tabs of a line
Indent(line) == Upto(line, LeadLen(line, IndentWs))

\* a second marker follows the first one, with nothing but whitespace between them
SecondMarker(line) ==
    /\ is_commented(line)
    /\ is_commented(From(line, LeadLen(line, Whitespace) + 2))

\* C3: uncomment_line(comment_line(L)) = L for every non-blank line L whose first
\* non-whitespace character is not the marker.
C3_RoundTrip ==
    \A i \in 1..(Len(ops) - 1) :
        (/\ Called(i, "comment") /\ Called(i + 1, "uncomment")
         /\ ~IsBlankLine(hist[i]) /\ ~is_commented(hist[i]))
        => hist[i + 2] = hist[i]

\* an indented line ending in CR LF was commented (which changed it) and uncommented
C3_Witness ==
    /\ ops = <<"comment", "uncomment">>
    /\ hist[1] = <<SP, "x", SP, "x", CR, LF>>
    /\ hist[2] = <<SP, MARK, SP, "x", SP, "x", CR, LF>>
    /\ hist[3] = hist[1]

\* C4 as claimed: comment_line and uncomment_line are each idempotent on every line,
\* lines carrying more than one marker included.
C4_BothIdempotent ==
    \A i \in 1..(Len(ops) - 1) :
        ops[i] = ops[i + 1] => hist[i + 2] = hist[i + 1]

\* C4 as amended: comment_line is idempotent on every line; uncomment_line is
\* idempotent on every line that carries at most one marker after its indentation.
C4_IdempotentUpToOneMarker ==
    \A i \in 1..(Len(ops) - 1) :
        (/\ ops[i] = ops[i + 1]
         /\ (ops[i] = "uncomment" => ~SecondMarker(hist[i])))
        => hist[i + 2] = hist[i + 1]

\* both idempotent cases happen: a line commented twice, a one-marker line uncommented twice
C4_Witness ==
    \/ /\ ops = <<"comment", "comment">>
       /\ hist = <<<<SP, "x", LF>>, <<SP, MARK, SP, "x", LF>>, <<SP, MARK, SP, "x", LF>>>>
    \/ /\ ops = <<"uncomment", "uncomment">>
       /\ hist = <<<<MARK, SP, "x", LF>>, <<"x", LF>>, <<"x", LF>>>>

\* C5: comment_line and uncomment_line each return a line with the leading
\* indentation and the line terminator of the line they were given.
C5_TerminatorAndIndentKept ==
    \A i \in 1..Len(ops) :
        /\ Term(hist[i + 1]) = Term(hist[i])
        /\ Len(hist[i + 1]) >= Len(Indent(hist[i]))
        /\ Upto(hist[i + 1], Len(Indent(hist[i]))) = Indent(hist[i])

----------------------------------------------------------------------------
(* Claims about patch_spawn_modes, checked under SpecPatch *)

\* the span of region r a call with mode m enables, and the span it disables
SpanOn(r, m) == IF m = "urdf" THEN r.urdf ELSE r.usd
SpanOff(r, m) == IF m = "urdf" THEN r.usd ELSE r.urdf
OnSpan(r) == SpanOn(r, last.mode)
OffSpan(r) == SpanOff(r, last.mode)

\* the regions of the last call in which a span of each kind was located
BothRegions ==
    {i \in 1..Len(last.regions) :
        last.regions[i].urdf # NoSpan /\ last.regions[i].usd # NoSpan}

\* the lines the last call was given
SrcLines == last.src

\* C1: patch_spawn_modes called with mode K on the result of a call with mode K
\* returns its input unchanged.
C1_PatchIdempotent ==
    (last.called /\ last.src_mode = last.mode) => doc = last.src

\* C2 as claimed: in every region with a span of each kind, no non-blank line of the
\* enabled span is commented and every non-blank line of the disabled span is.
C2_Exclusive ==
    \A i \in BothRegions :
        LET r == last.regions[i]
        IN  /\ \A k \in OnSpan(r)[1]..OnSpan(r)[2] :
                   ~IsBlankLine(last.lines[k]) => ~is_commented(last.lines[k])
            /\ \A k \in OffSpan(r)[1]..OffSpan(r)[2] :
                   ~IsBlankLine(last.lines[k]) => is_commented(last.lines[k])

\* C2 as amended: in every region with a span of each kind, every non-blank line of
\* the disabled span is commented, the header and the footer of the enabled span are
\* not, and no line of the enabled span that carried a single marker is.
C2_ExclusiveUpToOneMarker ==
    \A i \in BothRegions :
        LET r == last.regions[i]
        IN  /\ ~is_commented(last.lines[OnSpan(r)[1]])
            /\ ~is_commented(last.lines[OnSpan(r)[2]])
            /\ \A k \in OnSpan(r)[1]..OnSpan(r)[2] :
                   ~SecondMarker(SrcLines[k]) => ~is_commented(last.lines[k])
            /\ \A k \in OffSpan(r)[1]..OffSpan(r)[2] :
                   ~IsBlankLine(last.lines[k]) => is_commented(last.lines[k])

\* a region whose disabled urdf block was enabled and whose enabled usd block was
\* disabled, every line of both
C2_Witness ==
    /\ last.called /\ last.mode = "urdf"
    /\ last.src = <<CfgStartLine>> \o BlockOff("Urdf") \o BlockOn("Usd")
    /\ last.regions = <<[block_start |-> 1, block_end |-> 7,
                         urdf |-> <<2, 4>>, usd |-> <<5, 7>>]>>
    /\ doc = <<CfgStartLine>> \o BlockOn("Urdf") \o BlockOff("Usd")

----------------------------------------------------------------------------
(* Claims about main, checked under Spec *)

InLog(f) == \E i \in 1..Len(log) : log[i] = f

\* the depth of the claim, counted character by character over text t: some prefix
\* of t holds an opening parenthesis and as many closing ones as opening ones
ReturnsToZero(t) ==
    \E n \in 1..Len(t) :
        /\ \E k \in 1..n : t[k] = "("
        /\ Count(Upto(t, n), "(") <= Count(Upto(t, n), ")")

\* line s of lines opens a region that is not closed before the end of the file
Unclosed(lines, s) ==
    /\ IsCfgStart(rstrip_nl(lines[s]))
    /\ ~ReturnsToZero(join(SubSeq(lines, s, Len(lines))))

\* the number of blocks of the requested kind the run saw
SeenOfMode == IF args.mode = "urdf" THEN found.urdf_seen ELSE found.usd_seen
NoMatchWarning == IF args.mode = "urdf" THEN "warn_no_urdf" ELSE "warn_no_usd"

\* C6 as claimed: a run on a file with a region that is never closed ends as a
\* failure and leaves the file as it was.
C6_UnclosedRegionFails ==
    (pc = "exit" /\ \E s \in 1..Len(original) : Unclosed(original, s))
    => (rc # 0 /\ log = <<>> /\ file.text = original)

\* C6 as amended: a region that is never closed is taken to run to the last line of
\* the file; its block of the requested kind is enabled like any other, the run ends
\* with status 0 and the file is rewritten iff the text changed.
C6_UnclosedRegionRunsToEnd ==
    \A i \in 1..Len(found.regions) :
        LET r == found.regions[i]
        IN  Unclosed(original, r.block_start)
            => /\ r.block_end = Len(original)
               /\ SpanOn(r, args.mode) # NoSpan
                     => ~is_commented(patched[SpanOn(r, args.mode)[1]])
               /\ pc = "exit" => (rc = 0 /\ (InLog("target") <=> patched # original))

\* an unclosed region whose disabled urdf block was enabled, and the file rewritten
C6_Witness ==
    /\ pc = "exit" /\ rc = 0 /\ args.mode = "urdf"
    /\ original = <<CfgStartLine>> \o BlockOff("Urdf")
    /\ found.regions = <<[block_start |-> 1, block_end |-> 4,
                          urdf |-> <<2, 4>>, usd |-> NoSpan]>>
    /\ file.text = <<CfgStartLine>> \o BlockOn("Urdf")

\* C7: the target file is written iff the patched text differs from the text read;
\* when they are equal neither the target nor the backup is written.
C7_WriteIffChanged ==
    /\ InLog("target") => (patched # original /\ file.text = patched)
    /\ (pc \in {"report", "exit"} /\ patched # original) => InLog("target")
    /\ patched = original => (log = <<>> /\ bak = NoFile)

\* a run that changed a DIR constant and a spawn block and wrote both files
C7_Witness ==
    /\ pc = "exit" /\ args.mode = "urdf" /\ values = {"ROS"}
    /\ original = <<DirRosLine, CfgStartLine>> \o BlockOff("Urdf")
    /\ file.text = <<<<"ROS", SP, "=", SP, DQ, "/ros", DQ, SP, MARK, "x", LF>>,
                     CfgStartLine>> \o BlockOn("Urdf")
    /\ log = <<"bak", "target">>

C9_MissingInputFails ==
    ~file.exists =>
        /\ pc \in {"start", "exit"}
        /\ pc = "exit" => (rc = 1 /\ "error_not_found" \in out)
        /\ log = <<>> /\ bak = NoFile
        /\ original = <<>> /\ patched = <<>> /\ found = NoFound /\ values = {}

C9_Witness ==
    /\ ~file.exists /\ pc = "exit" /\ rc = 1 /\ out = {"error_not_found"}

\* C10: a run that saw no block of the requested kind still ends with status 0,
\* prints the warning, and writes what else changed: the blocks of the other kind
\* disabled, the DIR constants replaced.
C10_NoMatchNonFatal ==
    (pc = "exit" /\ file.exists /\ SeenOfMode = 0)
    => /\ rc = 0
       /\ NoMatchWarning \in out
       /\ patched # original => (InLog("target") /\ file.text = patched)
       /\ Len(file.text) = Len(original)
       /\ \A i \in 1..Len(found.regions) :
              LET off == SpanOff(found.regions[i], args.mode)
              IN  off # NoSpan =>
                      \A k \in off[1]..off[2] :
                          ~IsBlankLine(file.text[k]) => is_commented(file.text[k])
       /\ \A k \in 1..Len(original) :
              LET m == DirAssignMatch(rstrip_nl(original[k]))
              IN  (m.ok /\ m.name \in values) =>
                      \E j \in 1..Len(file.text[k]) :
                          file.text[k][j] = NewValue(m.name)

\* no urdf block in the file: the usd block was disabled and UNITREE_ROS_DIR replaced
C10_Witness ==
    /\ pc = "exit" /\ rc = 0 /\ args.mode = "urdf" /\ values = {"ROS"}
    /\ "warn_no_urdf" \in out
    /\ original = <<DirRosLine, CfgStartLine>> \o BlockOn("Usd")
    /\ file.text = <<<<"ROS", SP, "=", SP, DQ, "/ros", DQ, SP, MARK, "x", LF>>,
                     CfgStartLine>> \o BlockOff("Usd")

----------------------------------------------------------------------------
(* Claims about the lines patch_spawn_modes touches, checked under SpecPatch *)

\* line k lies in a span located by the last call
InSomeSpan(k) ==
    \E i \in 1..Len(last.regions) :
        \E sp \in {last.regions[i].urdf, last.regions[i].usd} :
            sp # NoSpan /\ sp[1] <= k /\ k <= sp[2]

\* new is old with the marker and a space put in after the indentation
MarkerInserted(old, new) ==
    LET n == LeadLen(old, IndentWs)
    IN  new = Upto(old, n) \o <<MARK, SP>> \o From(old, n + 1)

\* new is old with the marker after the indentation, and the space after the marker
\* if there is one, taken out
MarkerRemoved(old, new) ==
    LET n == LeadLen(old, IndentWs)
    IN  /\ n < Len(old) /\ old[n + 1] = MARK
        /\ \/ new = Upto(old, n) \o From(old, n + 2)
           \/ /\ n + 2 <= Len(old) /\ old[n + 2] = SP
              /\ new = Upto(old, n) \o From(old, n + 3)

\* lines outside the located spans and blank lines are left as they were
FrameOutsideSpans ==
    \A k \in 1..Len(SrcLines) :
        (~InSomeSpan(k) \/ IsBlankLine(SrcLines[k])) => last.lines[k] = SrcLines[k]

\* C11: patch_spawn_modes leaves every line outside the located spans and every blank
\* line inside a span as it was, and changes a non-blank line inside a span only by
\* putting in or taking out the marker.
C11_FrameOfSwitch ==
    last.called =>
        /\ FrameOutsideSpans
        /\ \A k \in 1..Len(SrcLines) :
               (InSomeSpan(k) /\ ~IsBlankLine(SrcLines[k])) =>
                   \/ last.lines[k] = SrcLines[k]
                   \/ MarkerInserted(SrcLines[k], last.lines[k])
                   \/ MarkerRemoved(SrcLines[k], last.lines[k])

\* the column of the marker of a commented line: the length of its indentation
MarkerColumn(line) == LeadLen(line, IndentWs)

\* C13: in every span the last call disabled, every non-blank line has its marker at
\* the column of the header line's indentation.
C13_CleanCommentStyle ==
    \A i \in 1..Len(last.regions) :
        LET off == OffSpan(last.regions[i])
        IN  off # NoSpan =>
                \A k \in off[1]..off[2] :
                    ~IsBlankLine(last.lines[k]) =>
                        /\ MarkerColumn(last.lines[k]) = MarkerColumn(last.lines[off[1]])
                        /\ MarkerColumn(last.lines[k]) < Len(last.lines[k])
                        /\ last.lines[k][MarkerColumn(last.lines[k]) + 1] = MARK

\* C14: the text patch_spawn_modes returns has as many lines as the text it was given.
C14_NoLineCollapse ==
    last.called => Len(doc) = Len(SrcLines)

\* the mode that is not m
OtherMode(m) == IF m = "urdf" THEN "usd" ELSE "urdf"

\* new_src of patch_spawn_modes(text, mode)
new_src(text, mode) == join(patch_spawn_modes(text, mode).lines)

\* C19: a text returned by patch_spawn_modes with mode A, patched to the other mode
\* and then back to A, is that text again.
C19_SwitchBackLossless ==
    last.called =>
        new_src(new_src(join(doc), OtherMode(last.mode)), last.mode) = join(doc)

----------------------------------------------------------------------------
(* The DIR machine: replace_dir_assignments called on a text.  A line of the  *)
(* text is kept with the parts it is written from.                            *)

\* the line written from its parts: indent NAME eq q1 /old q2 tail term
DirLine(p) ==
    p.indent \o <<p.name>> \o p.eq \o <<p.q1, "/old", p.q2>> \o p.tail \o p.term

\* how a line is laid out: indentation, the spacing around =, the quotes, the tail
DirShapes ==
    {[indent |-> <<>>, eq |-> <<SP, "=", SP>>, q1 |-> DQ, q2 |-> DQ, tail |-> <<>>],
     [indent |-> <<>>, eq |-> <<SP, "=", SP>>, q1 |-> DQ, q2 |-> DQ,
      tail |-> <<SP, MARK, SP, "x">>],
     [indent |-> <<TAB, SP>>, eq |-> <<"=">>, q1 |-> SQ, q2 |-> SQ, tail |-> <<SP, SP>>],
     [indent |-> <<SP>>, eq |-> <<"=">>, q1 |-> SQ, q2 |-> SQ, tail |-> <<MARK, "x">>],
     \* the quotes do not match
     [indent |-> <<SP>>, eq |-> <<SP, "=", SP>>, q1 |-> DQ, q2 |-> SQ, tail |-> <<>>],
     \* something that is no comment follows the value
     [indent |-> <<>>, eq |-> <<SP, "=", SP>>, q1 |-> DQ, q2 |-> DQ, tail |-> <<SP, "x">>]}

\* the lines: every shape under every name ("x" is a name that is no DIR constant),
\* ended by a line feed, and two lines that end the file without one
DirParts ==
    {[indent |-> s.indent, name |-> n, eq |-> s.eq, q1 |-> s.q1, q2 |-> s.q2,
      tail |-> s.tail, term |-> <<LF>>] : s \in DirShapes, n \in DirNames \cup {"x"}}
      \cup {[indent |-> <<>>, name |-> n, eq |-> <<SP, "=", SP>>, q1 |-> DQ, q2 |-> DQ,
             tail |-> <<>>, term |-> <<>>] : n \in {"ROS", "x"}}

\* only the last line of a text can be without a line feed
DirDocs ==
    {ps \in SeqsUpTo(DirParts, MaxDirLines) :
        \A k \in 1..(Len(ps) - 1) : ps[k].term = <<LF>>}

DirInit ==
    /\ \E ps \in DirDocs, names \in (SUBSET DirNames) \ {{}} :
          dir = [called |-> FALSE, parts |-> ps,
                 src |-> [k \in 1..Len(ps) |-> DirLine(ps[k])],
                 names |-> names, out |-> <<>>]
    /\ hist = <<>> /\ ops = <<>> /\ doc = <<>> /\ last = NoCall
    /\ MainIdle

\* replace_dir_assignments(src, values), values holding a new value for each of names
ReplaceDirs ==
    /\ ~dir.called
    /\ dir' = [dir EXCEPT !.called = TRUE,
                          !.out = splitlines(replace_dir_assignments(join(dir.src),
                                                                     dir.names))]
    /\ UNCHANGED <<lineVars, patchVars, mainVars>>

DirNext == ReplaceDirs

SpecDir == DirInit /\ [][DirNext]_vars

----------------------------------------------------------------------------
(* Claims about replace_dir_assignments, checked under SpecDir *)

\* a tail that is blank or a comment
TailIsComment(tail) ==
    LET t == LeadLen(tail, IndentWs)
    IN  t = Len(tail) \/ tail[t + 1] = MARK

\* the line is of the form NAME = "old", NAME one that gets a new value
ToRewrite(p) ==
    p.name \in dir.names /\ p.q1 = p.q2 /\ TailIsComment(p.tail)

\* C12: replace_dir_assignments rewrites every line NAME = "old" whose NAME has a new
\* value as indentation, NAME = "new", tail: the indentation and the trailing comment
\* are those of the line; every other line is returned as it was.
C12_DirSubstitution ==
    dir.called =>
        /\ Len(dir.out) = Len(dir.src)
        /\ \A k \in 1..Len(dir.src) :
               LET p == dir.parts[k]
               IN  IF ToRewrite(p)
                   THEN dir.out[k] = p.indent
                                       \o <<p.name, SP, "=", SP, DQ, NewValue(p.name), DQ>>
                                       \o p.tail \o <<LF>>
                   ELSE dir.out[k] = dir.src[k]

\* an indented line with a trailing comment was rewritten, and the line of the other
\* constant, which got no new value, left alone
C12_Witness ==
    /\ dir.called /\ dir.names = {"ROS"}
    /\ dir.src = <<<<SP, "ROS", "=", SQ, "/old", SQ, MARK, "x", LF>>,
                   <<"MODEL", SP, "=", SP, DQ, "/old", DQ, SP, MARK, SP, "x", LF>>>>
    /\ dir.out = <<<<SP, "ROS", SP, "=", SP, DQ, "/ros", DQ, MARK, "x", LF>>,
                   <<"MODEL", SP, "=", SP, DQ, "/old", DQ, SP, MARK, SP, "x", LF>>>>

----------------------------------------------------------------------------
(* The patch machine on documents of several regions: the same calls of        *)
(* patch_spawn_modes, started on texts made of whole regions and loose lines.  *)

\* a line that closes a parenthesis and opens another: ") x x("
ReopenLine == <<")", SP, "x", SP, "x", "(", LF>>

\* XXX_CFG = UnitreeArticulationCfg( ... ) around the lines inner
Region(inner) == <<CfgStartLine>> \o inner \o <<CloseLine>>

\* a region with no urdf block, one with a block of each kind, and one whose urdf
\* block is closed by a line ")" that is no footer: the comma is missing
RegionUsdOnly == Region(BlockOn("Usd"))
RegionBoth == Region(BlockOff("Urdf") \o BlockOn("Usd"))
RegionNoFooter == Region(<<HeaderLine("Urdf"), ArgLine, CloseLine>>)

ScanChunks ==
    {<<CfgStartLine>>, <<CloseLine>>, <<ReopenLine>>, BlockOff("Urdf"),
     RegionUsdOnly, RegionBoth, RegionNoFooter}

ScanInit ==
    /\ doc \in {splitlines(t) : t \in Texts(ScanChunks)}
    /\ last = NoCall
    /\ hist = <<>>
    /\ ops = <<>>
    /\ dir = NoDir
    /\ MainIdle

SpecScan == ScanInit /\ [][PatchNext]_vars

----------------------------------------------------------------------------
(* Claims about regions and spans, checked under SpecScan *)

\* the lines of s without the lines a..b
Without(s, a, b) == SubSeq(s, 1, a - 1) \o SubSeq(s, b + 1, Len(s))

\* the regions of the last call that hold no block of the requested kind
AbsentRegions == {i \in 1..Len(last.regions) : OnSpan(last.regions[i]) = NoSpan}

\* C15: a region with no block of the requested kind changes no other region's
\* outcome: the lines the call returns for a region are those it returns for that
\* region alone, and without the lines of a region that lacks the kind the call
\* returns the same lines everywhere else.
C15_RegionIndependence ==
    /\ \A i \in 1..Len(last.regions) :
           LET r == last.regions[i]
           IN  SubSeq(last.lines, r.block_start, r.block_end)
                 = patch_spawn_modes(join(SubSeq(SrcLines, r.block_start, r.block_end)),
                                     last.mode).lines
    /\ \A i \in AbsentRegions :
           LET r == last.regions[i]
           IN  Without(last.lines, r.block_start, r.block_end)
                 = patch_spawn_modes(join(Without(SrcLines, r.block_start, r.block_end)),
                                     last.mode).lines

\* a region without a urdf block stands before a region with a block of each kind,
\* and the call for urdf switched the second region
C15_Witness ==
    /\ last.called /\ last.mode = "urdf"
    /\ last.src = RegionUsdOnly \o RegionBoth
    /\ last.regions = <<[block_start |-> 1, block_end |-> 5,
                         urdf |-> NoSpan, usd |-> <<2, 4>>],
                        [block_start |-> 6, block_end |-> 13,
                         urdf |-> <<7, 9>>, usd |-> <<10, 12>>]>>
    /\ doc = Region(BlockOff("Usd")) \o Region(BlockOn("Urdf") \o BlockOff("Usd"))

\* what find_cfg_block_end counts, over the text of lines s..i: the depth at the end
\* of line i, and whether the depth came back to zero at some character of s..i
DepthAtEnd(lines, s, i) ==
    Count(join(SubSeq(lines, s, i)), "(") - Count(join(SubSeq(lines, s, i)), ")")
ZeroWithin(lines, s, i) == ReturnsToZero(join(SubSeq(lines, s, i)))

\* C16 as claimed: the region ends on the line that holds the character at which the
\* depth, counted character by character, first comes back to zero.
C16_RegionEndPerChar ==
    \A i \in 1..Len(last.regions) :
        LET r == last.regions[i]
            Z == {e \in r.block_start..Len(SrcLines) : ZeroWithin(SrcLines, r.block_start, e)}
        IN  Z # {} => r.block_end = Min(Z)

\* C16 as amended: the depth is looked at at the end of each line only: the region
\* ends on the first line at whose end the depth is zero or less, and on the last
\* line of the file when there is none; a line on which the depth comes back to zero
\* and goes up again does not end it.
C16_RegionEndPerLine ==
    \A i \in 1..Len(last.regions) :
        LET r == last.regions[i]
        IN  /\ \A e \in r.block_start..(r.block_end - 1) :
                   DepthAtEnd(SrcLines, r.block_start, e) > 0
            /\ \/ DepthAtEnd(SrcLines, r.block_start, r.block_end) <= 0
               \/ r.block_end = Len(SrcLines)

\* the depth comes back to zero on line 2, which opens a parenthesis again; the region
\* ends on line 3
C16_Witness ==
    /\ last.called
    /\ last.src = <<CfgStartLine, ReopenLine, CloseLine>>
    /\ ZeroWithin(last.src, 1, 2)
    /\ last.regions = <<[block_start |-> 1, block_end |-> 3,
                         urdf |-> NoSpan, usd |-> NoSpan]>>

\* line k of the text the last call was given is a spawn header of kind, a spawn footer
IsHeaderOf(k, kind) == SpawnHeaderKind(rstrip_nl(SrcLines[k])) = kind
IsFooter(k) == IsSpawnFooter(rstrip_nl(SrcLines[k]))

\* sp is a span of kind within region r: it starts on a header of the kind, ends on
\* the first footer after it, and lies within the region
WellFormedSpan(r, sp, kind) ==
    /\ r.block_start <= sp[1] /\ sp[1] < sp[2] /\ sp[2] <= r.block_end
    /\ IsHeaderOf(sp[1], kind)
    /\ IsFooter(sp[2])
    /\ \A k \in (sp[1] + 1)..(sp[2] - 1) : ~IsFooter(k)

\* C17: every span located is well-formed, the urdf span and the usd span of a region
\* share no line, and a header with no footer up to the end of its region starts no
\* span.
C17_SpansWellFormed ==
    \A i \in 1..Len(last.regions) :
        LET r == last.regions[i]
        IN  /\ r.urdf # NoSpan => WellFormedSpan(r, r.urdf, "Urdf")
            /\ r.usd # NoSpan => WellFormedSpan(r, r.usd, "Usd")
            /\ (r.urdf # NoSpan /\ r.usd # NoSpan)
                   => (r.urdf[2] < r.usd[1] \/ r.usd[2] < r.urdf[1])
            /\ \A h \in r.block_start..r.block_end :
                   (/\ SpawnHeaderKind(rstrip_nl(SrcLines[h])) # ""
                    /\ \A k \in (h + 1)..r.block_end : ~IsFooter(k))
                   => /\ r.urdf # NoSpan => r.urdf[1] # h
                      /\ r.usd # NoSpan => r.usd[1] # h

\* the urdf header of the first region has its first footer in the second region and
\* starts no span; the second region has a span of each kind
C17_Witness ==
    /\ last.called
    /\ last.src = RegionNoFooter \o RegionBoth
    /\ IsHeaderOf(2, "Urdf") /\ find_matching_footer(last.src, 2) = 9
    /\ last.regions = <<[block_start |-> 1, block_end |-> 5,
                         urdf |-> NoSpan, usd |-> NoSpan],
                        [block_start |-> 6, block_end |-> 13,
                         urdf |-> <<7, 9>>, usd |-> <<10, 12>>]>>

\* line k of the text the last call was given matches the start signature
IsStart(k) == IsCfgStart(rstrip_nl(SrcLines[k]))

\* the line the scan is at once i regions are processed
ResumeAfter(i) == IF i = 0 THEN 1 ELSE last.regions[i].block_end + 1

\* C18: the regions processed are disjoint and in increasing order, each ends at or
\* after its start, each starts on the first start-signature line at or after the
\* line following the region before it, no start-signature line is left after the
\* last one, and the count reported is the number of regions.
C18_RegionsDisjoint ==
    last.called =>
        /\ last.cfg_blocks = Len(last.regions)
        /\ \A i \in 1..Len(last.regions) :
               LET r == last.regions[i]
               IN  /\ r.block_start <= r.block_end /\ r.block_end <= Len(SrcLines)
                   /\ r.block_start >= ResumeAfter(i - 1)
                   /\ IsStart(r.block_start)
                   /\ \A k \in ResumeAfter(i - 1)..(r.block_start - 1) : ~IsStart(k)
        /\ \A k \in ResumeAfter(Len(last.regions))..Len(SrcLines) : ~IsStart(k)

\* two regions one after the other; the second is never closed and holds a
\* start-signature line, line 10, that opens no region of its own
C18_Witness ==
    /\ last.called
    /\ last.src = RegionBoth \o <<CfgStartLine>> \o RegionUsdOnly
    /\ IsStart(10)
    /\ last.cfg_blocks = 2
    /\ last.regions = <<[block_start |-> 1, block_end |-> 8,
                         urdf |-> <<2, 4>>, usd |-> <<5, 7>>],
                        [block_start |-> 9, block_end |-> 14,
                         urdf |-> NoSpan, usd |-> <<11, 13>>]>>

====
